---- MODULE Spec2Model ----
(***************************************************************************)
(* Model of wav_split.py: the Framer (frame_generator) and the voiced      *)
(* segment collector (vad_collector).  Both are Python generators; each    *)
(* is modelled as a sequential process whose program counter names the     *)
(* source line it is suspended at or about to execute.                     *)
(*                                                                         *)
(* Times are exact rationals in units of 1/(2*sample_rate) seconds (the    *)
(* time of one PCM byte), so float(n)/sample_rate/2.0 is n units.          *)
(***************************************************************************)
EXTENDS Integers, Sequences, FiniteSets, TLC

\* ------------------------------------------------------------------ bounds
MaxFrames == 6     \* longest frame sequence fed to the collector
MaxAudio == 8      \* longest PCM buffer fed to the Framer
MaxExtra == 6      \* longest unvoiced tail appended to the 25-frame scenario
MaxRun == 11       \* longest run of equal votes fed to a wide window

\* calls is the log of the classifier's invocations (the bytes passed),
\* last_transition the index of the frame of the latest trigger or detrigger
\* (0 before the first), sites the line of the yield that produced each
\* emitted segment, and earlier the outcome of a finished earlier run.
VARIABLES
    sample_rate, frame_duration_ms,                       \* shared arguments
    audio, n, offset, timestamp, duration, fpc, yielded,  \* frame_generator
    padding_duration_ms, vad, frames,                     \* vad_collector arguments
    num_padding_frames, ring_buffer, triggered, voiced_frames,
    idx, frame, is_speech, pc, out, sites,
    calls, last_transition, earlier                       \* history of the run

fvars == <<audio, n, offset, timestamp, duration, fpc, yielded>>
cargs == <<padding_duration_ms, vad, frames, num_padding_frames>>
history == <<calls, last_transition, earlier>>
cvars == <<padding_duration_ms, vad, frames, num_padding_frames, ring_buffer,
           triggered, voiced_frames, idx, frame, is_speech, pc, out, sites,
           calls, last_transition, earlier>>
vars == <<sample_rate, frame_duration_ms, audio, n, offset, timestamp, duration,
          fpc, yielded, padding_duration_ms, vad, frames, num_padding_frames,
          ring_buffer, triggered, voiced_frames, idx, frame, is_speech, pc, out,
          sites, calls, last_transition, earlier>>

\* ------------------------------------------------------------- data model
\* class Frame: bytes, timestamp, duration
Frame(bytes, ts, dur) == [bytes |-> bytes, timestamp |-> ts, duration |-> dur]

\* The value of the loop variable `frame` before the first iteration binds it.
NoFrame == Frame(<<>>, 0, 0)

\* Python slice audio[a:b] for 0 <= a <= b: clamped to the buffer.
Slice(s, a, b) ==
    SubSeq(s, a + 1, IF b < Len(s) THEN b ELSE Len(s))

\* int(padding_duration_ms / frame_duration_ms): true division, truncated.
NumPaddingFrames(padding, fdur) == padding \div fdur

\* Mutant of DequeAppend: nothing is ever evicted.
DequeAppendNoEvict(rb, x, m) == Append(rb, x)

\* Mutant of DequeAppend: appendleft instead of append.
DequeAppendLeft(rb, x, m) ==
    IF m = 0 THEN <<>>
    ELSE IF Len(rb) >= m THEN <<x>> \o SubSeq(rb, 1, Len(rb) - 1)
    ELSE <<x>> \o rb

\* collections.deque(maxlen=m).append(x): the oldest element is evicted when
\* the deque is full; a deque of maxlen 0 stays empty.
DequeAppend(rb, x, m) ==
    IF m = 0 THEN <<>>
    ELSE IF Len(rb) >= m THEN Append(Tail(rb), x)
    ELSE Append(rb, x)

\* Mutant of NumVoiced: the filter is forgotten.
NumVoicedAll(rb) == Len(rb)

\* len([f for f, speech in ring_buffer if speech])
NumVoiced(rb) == Cardinality({i \in 1..Len(rb) : rb[i][2]})

\* Mutant of NumUnvoiced: the filter is not negated.
NumUnvoicedAsVoiced(rb) == Cardinality({i \in 1..Len(rb) : rb[i][2]})

\* len([f for f, speech in ring_buffer if not speech])
NumUnvoiced(rb) == Cardinality({i \in 1..Len(rb) : ~rb[i][2]})

\* Mutant of OverThreshold: non-strict comparison.
OverThresholdNonStrict(count, maxlen) == 10 * count >= 9 * maxlen

\* Mutant of OverThreshold: a 50% threshold.
OverThresholdHalf(count, maxlen) == 2 * count > maxlen

\* Mutant of OverThreshold: compared with the truncated threshold int(0.9 * W).
OverThresholdTruncated(count, maxlen) == count >= (9 * maxlen) \div 10

\* Mutant of OverThreshold: any counted vote is enough.
OverThresholdAny(count, maxlen) == count > 0

\* count > 0.9 * ring_buffer.maxlen.  For 0 <= count <= maxlen < 200 the
\* double-precision comparison agrees with the integer one below.
OverThreshold(count, maxlen) == 10 * count > 9 * maxlen

\* [f for f, s in ring_buffer]
RingFrames(rb) == [i \in 1..Len(rb) |-> rb[i][1]]

\* b''.join([f.bytes for f in fs])
RECURSIVE Join(_)
Join(fs) == IF fs = <<>> THEN <<>> ELSE Head(fs).bytes \o Join(Tail(fs))

\* Outcomes of vad.is_speech on a frame: voiced, unvoiced, or an exception.
Outcomes == {"voiced", "unvoiced", "error"}

\* The k-th frame handed to the collector; its payload is the one byte k, so
\* that every frame is recognisable in a joined segment.
InputFrame(k) == Frame(<<k>>, k - 1, 1)

InputFrames(len) == [k \in 1..len |-> InputFrame(k)]

\* vad.is_speech(frame.bytes, sample_rate): the classifier is a function of
\* the frame's bytes.
IsSpeechOutcome(f) == vad[f.bytes[1]]

\* ------------------------------------------------------ vad_collector: Init
\* The Framer is not running in the collector's specifications.
FramerIdle ==
    /\ audio = <<>>
    /\ n = 0
    /\ offset = 0
    /\ timestamp = 0
    /\ duration = 0
    /\ fpc = "idle"
    /\ yielded = <<>>

\* Lines 119-126: the locals of a fresh collector.
CollectorStart ==
    /\ num_padding_frames = NumPaddingFrames(padding_duration_ms, frame_duration_ms)
    /\ ring_buffer = <<>>
    /\ triggered = FALSE
    /\ voiced_frames = <<>>
    /\ idx = 0
    /\ frame = NoFrame
    /\ is_speech = FALSE
    /\ pc = "for"
    /\ out = <<>>
    /\ sites = <<>>
    /\ calls = <<>>
    /\ last_transition = 0

\* No earlier run of the collector on the same arguments is on record.
NoRun == [run |-> 1, out |-> <<>>, pc |-> "none"]

Init ==
    /\ sample_rate = 16000
    /\ frame_duration_ms \in {20, 30}
    /\ padding_duration_ms \in {0, 30, 50, 60, 90}
    /\ \E len \in 0..MaxFrames :
          /\ frames = InputFrames(len)
          /\ vad \in [1..len -> Outcomes]
    /\ CollectorStart
    /\ earlier = NoRun
    /\ FramerIdle

\* --------------------------------------------------- vad_collector: actions
\* Mutant of ForNext: in the TRIGGERED state the frame is not classified and
\* the previous vote is used again.
ForNextSkipTriggered ==
    /\ pc = "for"
    /\ idx < Len(frames)
    /\ idx' = idx + 1
    /\ frame' = frames[idx + 1]
    /\ pc' = (IF triggered THEN "if" ELSE "is_speech")
    /\ UNCHANGED <<ring_buffer, triggered, voiced_frames, is_speech, out, sites>>
    /\ UNCHANGED <<cargs, fvars, sample_rate, frame_duration_ms>>
    /\ UNCHANGED history

\* Line 127, `for frame in frames`: the next frame is taken from the source.
ForNext ==
    /\ pc = "for"
    /\ idx < Len(frames)
    /\ idx' = idx + 1
    /\ frame' = frames[idx + 1]
    /\ pc' = "is_speech"
    /\ UNCHANGED <<ring_buffer, triggered, voiced_frames, is_speech, out, sites>>
    /\ UNCHANGED <<cargs, fvars, sample_rate, frame_duration_ms>>
    /\ UNCHANGED history

\* Line 127, the frame source is exhausted: control leaves the loop.
ForExhausted ==
    /\ pc = "for"
    /\ idx >= Len(frames)
    /\ pc' = "flush"
    /\ UNCHANGED <<ring_buffer, triggered, voiced_frames, idx, frame, is_speech,
                   out, sites>>
    /\ UNCHANGED <<cargs, fvars, sample_rate, frame_duration_ms>>
    /\ UNCHANGED history

\* Mutant of IsSpeech: a classifier exception is swallowed and the frame is
\* treated as unvoiced.
IsSpeechSwallow ==
    /\ pc = "is_speech"
    /\ is_speech' = (IsSpeechOutcome(frame) = "voiced")
    /\ pc' = "if"
    /\ UNCHANGED <<ring_buffer, triggered, voiced_frames, idx, frame, out, sites>>
    /\ UNCHANGED <<cargs, fvars, sample_rate, frame_duration_ms>>
    /\ calls' = Append(calls, frame.bytes)
    /\ UNCHANGED <<last_transition, earlier>>

\* Line 128, is_speech = vad.is_speech(frame.bytes, sample_rate).  An
\* exception is not caught anywhere in the generator: it leaves it.
IsSpeech ==
    /\ pc = "is_speech"
    /\ IF IsSpeechOutcome(frame) = "error"
          THEN /\ pc' = "raised"
               /\ UNCHANGED is_speech
          ELSE /\ is_speech' = (IsSpeechOutcome(frame) = "voiced")
               /\ pc' = "if"
    /\ UNCHANGED <<ring_buffer, triggered, voiced_frames, idx, frame, out, sites>>
    /\ UNCHANGED <<cargs, fvars, sample_rate, frame_duration_ms>>
    /\ calls' = Append(calls, frame.bytes)
    /\ UNCHANGED <<last_transition, earlier>>

\* Mutant of NotTriggeredStep: line 143 is missing.
NotTriggeredStepNoClear ==
    /\ pc = "if"
    /\ ~triggered
    /\ LET rb == DequeAppend(ring_buffer, <<frame, is_speech>>, num_padding_frames)
       IN  /\ ring_buffer' = rb
           /\ IF OverThreshold(NumVoiced(rb), num_padding_frames)
                 THEN /\ triggered' = TRUE
                      /\ voiced_frames' = voiced_frames \o RingFrames(rb)
                 ELSE UNCHANGED <<triggered, voiced_frames>>
    /\ pc' = "for"
    /\ UNCHANGED <<idx, frame, is_speech, out, sites>>
    /\ UNCHANGED <<cargs, fvars, sample_rate, frame_duration_ms>>
    /\ last_transition' = (IF triggered' # triggered THEN idx ELSE last_transition)
    /\ UNCHANGED <<calls, earlier>>

\* Lines 130-143, the NOTTRIGGERED branch.
NotTriggeredStep ==
    /\ pc = "if"
    /\ ~triggered
    /\ LET rb == DequeAppend(ring_buffer, <<frame, is_speech>>, num_padding_frames)
       IN  IF OverThreshold(NumVoiced(rb), num_padding_frames)
              THEN /\ triggered' = TRUE
                   /\ voiced_frames' = voiced_frames \o RingFrames(rb)
                   /\ ring_buffer' = <<>>
              ELSE /\ ring_buffer' = rb
                   /\ UNCHANGED <<triggered, voiced_frames>>
    /\ pc' = "for"
    /\ UNCHANGED <<idx, frame, is_speech, out, sites>>
    /\ UNCHANGED <<cargs, fvars, sample_rate, frame_duration_ms>>
    /\ last_transition' = (IF triggered' # triggered THEN idx ELSE last_transition)
    /\ UNCHANGED <<calls, earlier>>

\* Mutant of TriggeredStep: the segment is handed over without suspending
\* the generator, which goes on to the next frame.
TriggeredStepEager ==
    /\ pc = "if"
    /\ triggered
    /\ LET vf == Append(voiced_frames, frame)
           rb == DequeAppend(ring_buffer, <<frame, is_speech>>, num_padding_frames)
       IN  IF OverThreshold(NumUnvoiced(rb), num_padding_frames)
              THEN /\ triggered' = FALSE
                   /\ out' = Append(out, Join(vf))
                   /\ sites' = Append(sites, 155)
                   /\ ring_buffer' = <<>>
                   /\ voiced_frames' = <<>>
                   /\ idx' = IF idx < Len(frames) THEN idx + 1 ELSE idx
                   /\ frame' = IF idx < Len(frames) THEN frames[idx + 1] ELSE frame
                   /\ pc' = IF idx < Len(frames) THEN "is_speech" ELSE "flush"
              ELSE /\ voiced_frames' = vf
                   /\ ring_buffer' = rb
                   /\ pc' = "for"
                   /\ UNCHANGED <<triggered, out, sites, idx, frame>>
    /\ UNCHANGED is_speech
    /\ UNCHANGED <<cargs, fvars, sample_rate, frame_duration_ms>>
    /\ last_transition' = (IF triggered' # triggered THEN idx ELSE last_transition)
    /\ UNCHANGED <<calls, earlier>>

\* Lines 144-155, the TRIGGERED branch up to the yield of line 155, where the
\* generator is suspended with the joined segment handed to the caller.
TriggeredStep ==
    /\ pc = "if"
    /\ triggered
    /\ LET vf == Append(voiced_frames, frame)
           rb == DequeAppend(ring_buffer, <<frame, is_speech>>, num_padding_frames)
       IN  /\ voiced_frames' = vf
           /\ ring_buffer' = rb
           /\ IF OverThreshold(NumUnvoiced(rb), num_padding_frames)
                 THEN /\ triggered' = FALSE
                      /\ out' = Append(out, Join(vf))
                      /\ sites' = Append(sites, 155)
                      /\ pc' = "yield155"
                 ELSE /\ pc' = "for"
                      /\ UNCHANGED <<triggered, out, sites>>
    /\ UNCHANGED <<idx, frame, is_speech>>
    /\ UNCHANGED <<cargs, fvars, sample_rate, frame_duration_ms>>
    /\ last_transition' = (IF triggered' # triggered THEN idx ELSE last_transition)
    /\ UNCHANGED <<calls, earlier>>

\* Mutant of Resume155: line 156 is missing.
Resume155NoClear ==
    /\ pc = "yield155"
    /\ voiced_frames' = <<>>
    /\ pc' = "for"
    /\ UNCHANGED <<ring_buffer, triggered, idx, frame, is_speech, out, sites>>
    /\ UNCHANGED <<cargs, fvars, sample_rate, frame_duration_ms>>
    /\ UNCHANGED history

\* Mutant of Resume155: line 157 is missing.
Resume155KeepFrames ==
    /\ pc = "yield155"
    /\ ring_buffer' = <<>>
    /\ pc' = "for"
    /\ UNCHANGED <<triggered, voiced_frames, idx, frame, is_speech, out, sites>>
    /\ UNCHANGED <<cargs, fvars, sample_rate, frame_duration_ms>>
    /\ UNCHANGED history

\* Lines 156-157: the caller pulls again and the generator resumes after the
\* yield of line 155.
Resume155 ==
    /\ pc = "yield155"
    /\ ring_buffer' = <<>>
    /\ voiced_frames' = <<>>
    /\ pc' = "for"
    /\ UNCHANGED <<triggered, idx, frame, is_speech, out, sites>>
    /\ UNCHANGED <<cargs, fvars, sample_rate, frame_duration_ms>>
    /\ UNCHANGED history

\* Mutant of Flush: leftover voiced audio is not yielded.
FlushNothing ==
    /\ pc = "flush"
    /\ pc' = "done"
    /\ UNCHANGED <<ring_buffer, triggered, voiced_frames, idx, frame, is_speech,
                   out, sites>>
    /\ UNCHANGED <<cargs, fvars, sample_rate, frame_duration_ms>>
    /\ UNCHANGED history

\* Mutant of Flush: the test of line 162 is missing.
FlushAlways ==
    /\ pc = "flush"
    /\ out' = Append(out, Join(voiced_frames))
    /\ sites' = Append(sites, 163)
    /\ pc' = "yield163"
    /\ UNCHANGED <<ring_buffer, triggered, voiced_frames, idx, frame, is_speech>>
    /\ UNCHANGED <<cargs, fvars, sample_rate, frame_duration_ms>>
    /\ UNCHANGED history

\* Lines 158-163: after the loop, leftover voiced audio is yielded.
Flush ==
    /\ pc = "flush"
    /\ IF voiced_frames # <<>>
          THEN /\ out' = Append(out, Join(voiced_frames))
               /\ sites' = Append(sites, 163)
               /\ pc' = "yield163"
          ELSE /\ pc' = "done"
               /\ UNCHANGED <<out, sites>>
    /\ UNCHANGED <<ring_buffer, triggered, voiced_frames, idx, frame, is_speech>>
    /\ UNCHANGED <<cargs, fvars, sample_rate, frame_duration_ms>>
    /\ UNCHANGED history

\* The caller pulls after the yield of line 163: the generator returns.
Resume163 ==
    /\ pc = "yield163"
    /\ pc' = "done"
    /\ UNCHANGED <<ring_buffer, triggered, voiced_frames, idx, frame, is_speech,
                   out, sites>>
    /\ UNCHANGED <<cargs, fvars, sample_rate, frame_duration_ms>>
    /\ UNCHANGED history

Next ==
    \/ ForNext
    \/ ForExhausted
    \/ IsSpeech
    \/ NotTriggeredStep
    \/ TriggeredStep
    \/ Resume155
    \/ Flush
    \/ Resume163

Spec == Init /\ [][Next]_vars

\* ------------------------------------------------------- frame_generator
\* Line 83, n = int(sample_rate * (frame_duration_ms / 1000.0) * 2).  For the
\* rates and durations of FramerInit (and for 8000/16000/32000 Hz at 10, 20
\* and 30 ms) the truncated double equals the integer quotient below.
FrameBytes(rate, fdur) == (rate * fdur * 2) \div 1000

\* Line 86, duration = (float(n) / sample_rate) / 2.0, in units of
\* 1/(2*sample_rate) seconds.
FrameDuration(nbytes) == nbytes

\* Mutant of HasFrame: the loop also runs when the chunk exactly fills the
\* remaining bytes.
HasFrameNonStrict(off, nbytes, len) == off + nbytes <= len

\* Mutant of HasFrame: the loop stops one byte early.
HasFrameEarly(off, nbytes, len) == off + nbytes + 1 < len

\* Line 87, the loop test offset + n < len(audio).
HasFrame(off, nbytes, len) == off + nbytes < len

\* Mutant of FrameSlice: the slice starts one byte late.
FrameSliceLate(buf, off, nbytes) == Slice(buf, off + 1, off + nbytes)

\* Line 88, audio[offset:offset + n].
FrameSlice(buf, off, nbytes) == Slice(buf, off, off + nbytes)

\* The collector is not running in the Framer's specification.
CollectorIdle ==
    /\ padding_duration_ms = 0
    /\ vad = <<>>
    /\ frames = <<>>
    /\ num_padding_frames = 0
    /\ ring_buffer = <<>>
    /\ triggered = FALSE
    /\ voiced_frames = <<>>
    /\ idx = 0
    /\ frame = NoFrame
    /\ is_speech = FALSE
    /\ pc = "idle"
    /\ out = <<>>
    /\ sites = <<>>
    /\ calls = <<>>
    /\ last_transition = 0
    /\ earlier = NoRun

\* PCM buffers of up to MaxAudio bytes over a two-value byte alphabet.
AudioBuffers == UNION {[1..len -> {0, 1}] : len \in 0..MaxAudio}

\* Lines 83-86: the locals of a fresh Framer.
FramerInit ==
    /\ sample_rate \in {500, 1000, 1500}
    /\ frame_duration_ms \in {1, 2}
    /\ audio \in AudioBuffers
    /\ n = FrameBytes(sample_rate, frame_duration_ms)
    /\ offset = 0
    /\ timestamp = 0
    /\ duration = FrameDuration(n)
    /\ fpc = "while"
    /\ yielded = <<>>
    /\ CollectorIdle

\* Lines 87-88: the loop test holds and a Frame is yielded to the caller.
FrameYield ==
    /\ fpc = "while"
    /\ HasFrame(offset, n, Len(audio))
    /\ yielded' = Append(yielded, Frame(FrameSlice(audio, offset, n), timestamp, duration))
    /\ fpc' = "yield88"
    /\ UNCHANGED <<audio, n, offset, timestamp, duration>>
    /\ UNCHANGED <<cvars, sample_rate, frame_duration_ms>>

\* Lines 89-90: the caller pulls again; timestamp and offset advance.
FrameResume ==
    /\ fpc = "yield88"
    /\ timestamp' = timestamp + duration
    /\ offset' = offset + n
    /\ fpc' = "while"
    /\ UNCHANGED <<audio, n, duration, yielded>>
    /\ UNCHANGED <<cvars, sample_rate, frame_duration_ms>>

\* Line 87: the loop test fails and the generator returns.
FrameStop ==
    /\ fpc = "while"
    /\ ~HasFrame(offset, n, Len(audio))
    /\ fpc' = "done"
    /\ UNCHANGED <<audio, n, offset, timestamp, duration, yielded>>
    /\ UNCHANGED <<cvars, sample_rate, frame_duration_ms>>

FramerNext ==
    \/ FrameYield
    \/ FrameResume
    \/ FrameStop

FramerSpec == FramerInit /\ [][FramerNext]_vars

\* ------------------------------------------- the 25-frame concrete scenario
\* 16000 Hz, 30 ms frames, 300 ms padding; votes [False]*5 + [True]*15 +
\* [False]*5, followed by a tail of `extra` further unvoiced frames, after
\* which the classifier may meet a frame it rejects.
ScenarioVotes(extra, bad) ==
    [k \in 1..(25 + extra + bad) |->
        IF k <= 5 THEN "unvoiced"
        ELSE IF k <= 20 THEN "voiced"
        ELSE IF k <= 25 + extra THEN "unvoiced"
        ELSE "error"]

ScenarioInit ==
    /\ sample_rate = 16000
    /\ frame_duration_ms = 30
    /\ padding_duration_ms = 300
    /\ \E extra \in 0..MaxExtra, bad \in 0..1 :
          /\ vad = ScenarioVotes(extra, bad)
          /\ frames = InputFrames(25 + extra + bad)
    /\ CollectorStart
    /\ earlier = NoRun
    /\ FramerIdle

ScenarioSpec == ScenarioInit /\ [][Next]_vars

\* ------------------------------------------------------- wide windows
\* Votes that come in runs: a unvoiced, b voiced, c unvoiced, d voiced.
RunVotes(a, b, c, d) ==
    [k \in 1..(a + b + c + d) |->
        IF k <= a THEN "unvoiced"
        ELSE IF k <= a + b THEN "voiced"
        ELSE IF k <= a + b + c THEN "unvoiced"
        ELSE "voiced"]

\* The inputs of Init, and besides them windows of 2 and 11 frames (60 and
\* 330 ms of padding at 30 ms per frame) fed with long runs of equal votes.
WideInit ==
    \/ Init
    \/ /\ sample_rate = 16000
       /\ frame_duration_ms = 30
       /\ padding_duration_ms \in {60, 330}
       /\ \E a \in 0..1, b \in 0..MaxRun, c \in 0..MaxRun, d \in 0..MaxRun :
             /\ vad = RunVotes(a, b, c, d)
             /\ frames = InputFrames(a + b + c + d)
       /\ CollectorStart
       /\ earlier = NoRun
       /\ FramerIdle

WideSpec == WideInit /\ [][Next]_vars

\* ------------------------------------------------ a second collector run
\* Mutant of Replay: the ring buffer is shared by the two runs instead of
\* being created by each invocation.
ReplaySharedRing ==
    /\ pc \in {"done", "raised"}
    /\ earlier.run = 1
    /\ earlier' = [run |-> 2, out |-> out, pc |-> pc]
    /\ ring_buffer' = ring_buffer
    /\ triggered' = FALSE
    /\ voiced_frames' = <<>>
    /\ idx' = 0
    /\ frame' = NoFrame
    /\ is_speech' = FALSE
    /\ pc' = "for"
    /\ out' = <<>>
    /\ sites' = <<>>
    /\ calls' = <<>>
    /\ last_transition' = 0
    /\ UNCHANGED <<cargs, fvars, sample_rate, frame_duration_ms>>

\* Once a run has ended (returned or raised), vad_collector is invoked again
\* with the same arguments: lines 119-126 build the locals of the new
\* generator, and the frame source is iterated from its start.  What the
\* first run emitted and how it ended is kept in `earlier`.
Replay ==
    /\ pc \in {"done", "raised"}
    /\ earlier.run = 1
    /\ earlier' = [run |-> 2, out |-> out, pc |-> pc]
    /\ ring_buffer' = <<>>
    /\ triggered' = FALSE
    /\ voiced_frames' = <<>>
    /\ idx' = 0
    /\ frame' = NoFrame
    /\ is_speech' = FALSE
    /\ pc' = "for"
    /\ out' = <<>>
    /\ sites' = <<>>
    /\ calls' = <<>>
    /\ last_transition' = 0
    /\ UNCHANGED <<cargs, fvars, sample_rate, frame_duration_ms>>

ReplayNext ==
    \/ Next
    \/ Replay

ReplaySpec == Init /\ [][ReplayNext]_vars

\* ========================================================== properties
\* Votes held in the ring buffer, oldest first.
RingVotes == [i \in 1..Len(ring_buffer) |-> ring_buffer[i][2]]

\* The last w elements of a sequence (all of it when it is shorter).
LastOf(s, w) == IF Len(s) > w THEN SubSeq(s, Len(s) - w + 1, Len(s)) ELSE s

\* The window's votes once the current frame's vote has been pushed.
PushedVotes == LastOf(Append(RingVotes, is_speech), num_padding_frames)

\* The window's frames once the current frame has been pushed.
PushedFrames == LastOf(Append(RingFrames(ring_buffer), frame), num_padding_frames)

CountOf(votes, b) == Cardinality({i \in 1..Len(votes) : votes[i] = b})

\* C1 - Trigger threshold: for W >= 1 a step takes the collector from
\* NOT_TRIGGERED to TRIGGERED if and only if it is the processing of a frame in
\* NOT_TRIGGERED and, once that frame's vote is pushed, the voiced votes in the
\* window number strictly more than 0.9 * W.
C1_TriggerThreshold ==
    [][num_padding_frames >= 1 =>
         ((~triggered /\ triggered') <=>
            (/\ pc = "if"
             /\ ~triggered
             /\ 10 * CountOf(PushedVotes, TRUE) > 9 * num_padding_frames))]_vars

\* A trigger has just happened on a window that had already evicted a frame.
C1_Witness ==
    /\ triggered
    /\ pc = "for"
    /\ ring_buffer = <<>>
    /\ num_padding_frames = 3
    /\ Len(voiced_frames) = 3
    /\ idx > 3

\* C2 - Detrigger threshold: for W >= 1 a step takes the collector from
\* TRIGGERED to NOT_TRIGGERED if and only if it is the processing of a frame in
\* TRIGGERED and, once the frame is appended and its vote pushed, the unvoiced
\* votes in the window number strictly more than 0.9 * W; that step emits the
\* segment list (with the frame) as one buffer, and the list is emptied when
\* the generator continues.
C2_DetriggerThreshold ==
    [][num_padding_frames >= 1 =>
         /\ (triggered /\ ~triggered') <=>
               (/\ pc = "if"
                /\ triggered
                /\ 10 * CountOf(PushedVotes, FALSE) > 9 * num_padding_frames)
         /\ (triggered /\ ~triggered') =>
               /\ out' = Append(out, Join(Append(voiced_frames, frame)))
               /\ pc' = "yield155"
         /\ (pc = "if" /\ triggered /\ triggered') => out' = out
         /\ pc = "yield155" => (voiced_frames' = <<>> /\ out' = out /\ pc' = "for")]_vars

\* A detrigger has emitted a segment whose window had evicted a vote, and the
\* generator has continued with an empty segment list.
C2_Witness ==
    /\ pc = "for"
    /\ ~triggered
    /\ num_padding_frames = 2
    /\ Len(out) = 1
    /\ Len(out[1]) = 5
    /\ voiced_frames = <<>>
    /\ idx = Len(out[1]) + 1

\* C3 - Flush: once the frame sequence is exhausted, a non-empty segment list
\* is emitted as exactly one further buffer holding its frames in order, an
\* empty one emits nothing, and in both cases the generator then returns.
C3_Flush ==
    [][/\ (pc = "for" /\ idx >= Len(frames)) => (pc' = "flush" /\ out' = out)
       /\ (pc = "flush" /\ voiced_frames # <<>>) =>
             /\ out' = Append(out, [i \in 1..Len(voiced_frames) |->
                                       voiced_frames[i].bytes[1]])
             /\ pc' = "yield163"
       /\ (pc = "flush" /\ voiced_frames = <<>>) => (out' = out /\ pc' = "done")
       /\ pc = "yield163" => (out' = out /\ pc' = "done")
       /\ pc = "done" => FALSE]_vars

\* The input ended in TRIGGERED without any detrigger and the open segment was
\* flushed.
C3_Witness ==
    /\ pc = "done"
    /\ triggered
    /\ sites = <<163>>
    /\ Len(out) = 1
    /\ Len(out[1]) >= 3
    /\ num_padding_frames = 2

\* A buffer that is the payload of consecutive input frames i..j.
IsRun(buf) ==
    /\ Len(buf) >= 1
    /\ buf[1] >= 1
    /\ buf[Len(buf)] <= Len(frames)
    /\ \A p \in 1..(Len(buf) - 1) : buf[p + 1] = buf[p] + 1

C4_Inv ==
    /\ \A s \in 1..Len(out) : IsRun(out[s])
    /\ (triggered /\ pc \in {"for", "flush", "yield163", "done"}) =>
          (IsRun(Join(voiced_frames)) /\ Join(voiced_frames)[Len(voiced_frames)] = idx)

C4_Step ==
    /\ (~triggered /\ triggered') =>
          /\ voiced_frames' # <<>>
          /\ PushedFrames # <<>>
          /\ voiced_frames'[1] = PushedFrames[1]
    /\ (triggered /\ triggered' /\ voiced_frames # <<>>) =>
          (voiced_frames' # <<>> /\ voiced_frames'[1] = voiced_frames[1])
    /\ Len(out') > Len(out) =>
          /\ Len(out') = Len(out) + 1
          /\ SubSeq(out', 1, Len(out)) = out
          /\ voiced_frames' # <<>>
          /\ out'[Len(out')] # <<>>
          /\ out'[Len(out')][1] = voiced_frames'[1].bytes[1]
          /\ out'[Len(out')][Len(out'[Len(out')])] = idx
          /\ pc' = "yield155" => frame.bytes = <<idx>>
          /\ pc' = "yield163" => idx = Len(frames)
          /\ pc' \in {"yield155", "yield163"}

\* C4 - Every emitted segment is the payload of consecutive input frames i..j,
\* none skipped, repeated or invented: i is the oldest frame in the ring buffer
\* at the trigger and j is the frame that caused the detrigger, or the last
\* input frame for the end-of-input flush.
C4_ContiguousSegments == []C4_Inv /\ [][C4_Step]_vars

\* A segment emitted at a detrigger whose first frame is the oldest frame of
\* a window that had already evicted frame 1.
C4_Witness ==
    /\ pc = "done"
    /\ num_padding_frames = 2
    /\ sites = <<155>>
    /\ out = <<<<2, 3, 4, 5>>>>

LargestBelow(len, nbytes) == IF len = 0 THEN 0 ELSE (len - 1) \div nbytes

C6_Inv ==
    (n >= 1 /\ fpc = "done") =>
       /\ Len(yielded) = LargestBelow(Len(audio), n)
       /\ \A m \in 1..MaxAudio + 1 : Len(audio) = m * n => Len(yielded) = m - 1

C6_Step ==
    (n >= 1 /\ fpc = "while") =>
       /\ offset = n * Len(yielded)
       /\ (Len(yielded') = Len(yielded) + 1) <=> (offset + n < Len(audio))
       /\ (offset + n >= Len(audio)) => (fpc' = "done" /\ yielded' = yielded)

\* C6 - Strict boundary rule: a frame is emitted at offset o if and only if
\* o + n < length(audio); the Framer stops without emitting once
\* o + n >= length(audio); it emits the largest k with k*n < length(audio)
\* frames, so an input of exactly m*n bytes yields m-1 frames.
C6_StrictBoundary == []C6_Inv /\ [][C6_Step]_vars

\* An input of exactly two frames' length has produced one frame only.
C6_Witness ==
    /\ fpc = "done"
    /\ n >= 2
    /\ Len(audio) = 2 * n
    /\ Len(yielded) = 1

\* Bytes of the input that are in no emitted frame.
Dropped == Len(audio) - n * Len(yielded)

\* C7 as stated: the frames cover the input front to back and fewer than n
\* bytes are dropped.
C7_Original ==
    (n >= 1 /\ fpc = "done") =>
       /\ Join(yielded) = SubSeq(audio, 1, n * Len(yielded))
       /\ Dropped < n

\* C7 amended: the frames cover the input front to back with no gap and no
\* overlap, and the bytes in no frame are a trailing remainder of at most n
\* bytes: length mod n bytes when that is not zero, a whole frame of n bytes
\* when the length is a positive multiple of n, nothing for an empty input.
C7_CoverageUpToOneFrame ==
    (n >= 1 /\ fpc = "done") =>
       /\ Join(yielded) = SubSeq(audio, 1, n * Len(yielded))
       /\ Dropped = (IF Len(audio) = 0 THEN 0
                     ELSE IF Len(audio) % n = 0 THEN n
                     ELSE Len(audio) % n)

\* The Framer has finished and left out a whole final frame.
C7_Witness ==
    /\ fpc = "done"
    /\ n >= 2
    /\ Len(yielded) >= 1
    /\ Dropped = n

\* C8 - Classifier failure: an exception of the classifier on frame k ends the
\* generator with that exception; the segments emitted so far stay as they are,
\* nothing is emitted afterwards, the open segment is not flushed and the
\* frame is not classified again.
C8_ClassifierFailure ==
    [][/\ (pc = "is_speech" /\ vad[idx] = "error") =>
             /\ pc' = "raised"
             /\ out' = out
             /\ idx' = idx
       /\ pc' = "raised" => (pc = "is_speech" /\ vad[idx] = "error")
       /\ pc = "raised" => FALSE]_vars

\* The classifier failed after a segment was emitted and while another was
\* open.
C8_Witness ==
    /\ pc = "raised"
    /\ Len(out) = 1
    /\ triggered
    /\ voiced_frames # <<>>

\* C9 - Scenario, trigger point: with W = 10 and the 25 votes 5 unvoiced, 15
\* voiced, 5 unvoiced, the collector is NOT_TRIGGERED through frames 0..13 and
\* becomes TRIGGERED in the processing of frame 14 (the 15th frame).
C9_ScenarioTrigger ==
    (Len(frames) = 25 /\ num_padding_frames = 10) =>
       /\ idx <= 14 => ~triggered
       /\ (idx = 15 /\ pc \in {"is_speech", "if"}) => ~triggered
       /\ (idx = 15 /\ pc = "for") =>
             /\ triggered
             /\ Join(voiced_frames) = <<6, 7, 8, 9, 10, 11, 12, 13, 14, 15>>

\* The 15th frame of the 25-frame run has just triggered.
C9_Witness ==
    /\ Len(frames) = 25
    /\ idx = 15
    /\ pc = "for"
    /\ triggered
    /\ ring_buffer = <<>>

\* Number of segments emitted at the yield of the given line.
EmittedAt(line) == Cardinality({s \in 1..Len(sites) : sites[s] = line})

\* C10 as stated: the 25-frame run emits one segment at a detrigger.
C10_Original ==
    (Len(frames) = 25 /\ pc = "done") => EmittedAt(155) = 1

\* C10 amended: in the 25-frame run the five trailing unvoiced frames never
\* exceed 0.9 * W of the window, so no detrigger happens and exactly one
\* segment is emitted, by the end-of-input flush, holding frames 5..24.  A
\* segment is emitted at a detrigger only when the unvoiced tail reaches 10
\* frames (frame 29); it then holds frames 5..29 and no flush follows.
C10_ScenarioEmission ==
    (Len(frames) >= 25 /\ num_padding_frames = 10) =>
       /\ (Len(frames) = 25 \/ idx < 30) => (EmittedAt(155) = 0 /\ pc # "yield155")
       /\ (pc = "done" /\ Len(frames) < 30) =>
             /\ sites = <<163>>
             /\ out = <<[i \in 1..(Len(frames) - 5) |-> i + 5]>>
       /\ (pc = "done" /\ Len(frames) >= 30) =>
             /\ sites = <<155>>
             /\ out = <<[i \in 1..25 |-> i + 5]>>

\* The 25-frame run has ended with its single segment flushed.
C10_Witness ==
    /\ Len(frames) = 25
    /\ pc = "done"
    /\ sites = <<163>>
    /\ Len(out[1]) = 20

C12_EmptyInput ==
    [][frames = <<>> =>
          /\ calls' = <<>>
          /\ out' = <<>>
          /\ pc = "for" => pc' = "flush"
          /\ pc = "flush" => pc' = "done"
          /\ pc \in {"for", "flush"}]_vars

\* The run on an empty frame sequence has returned.
C12_Witness ==
    /\ frames = <<>>
    /\ pc = "done"
    /\ out = <<>>
    /\ calls = <<>>
    /\ num_padding_frames >= 1

\* Index of the input frame held at position i of the ring buffer.
RingIndex(i) == ring_buffer[i][1].bytes[1]

C13_Inv ==
    /\ pc \in {"for", "is_speech", "if", "flush"} =>
          \A i \in 1..Len(ring_buffer) : RingIndex(i) > last_transition
    /\ (pc = "for" /\ idx = last_transition) => ring_buffer = <<>>

C13_Step ==
    /\ (~triggered /\ triggered') => (ring_buffer' = <<>> /\ last_transition' = idx)
    /\ (triggered /\ ~triggered') => (pc' = "yield155" /\ last_transition' = idx)
    /\ pc = "yield155" => (ring_buffer' = <<>> /\ idx' = idx /\ pc' = "for")
    /\ (triggered' = triggered) => last_transition' = last_transition

\* C13 - Ring buffer reset: a trigger empties the ring buffer in the same step
\* and a detrigger empties it when the generator continues after its yield,
\* before another frame is taken; so at every threshold test the window holds
\* only votes of frames that came after the latest transition.
C13_RingBufferReset == []C13_Inv /\ [][C13_Step]_vars

\* After a detrigger and the reset, a new window has been started and a later
\* trigger decided from it.
C13_Witness ==
    /\ triggered
    /\ pc = "for"
    /\ Len(out) = 1
    /\ ring_buffer = <<>>
    /\ last_transition = idx
    /\ num_padding_frames = 2

\* Number of frames fully processed since the latest transition.
SinceTransition == idx - last_transition

\* The smaller of two numbers.
Min(a, b) == IF a < b THEN a ELSE b

\* C14 - Sliding window: the ring buffer never holds more than W votes, and
\* between frames it holds exactly the most recent min(W, m) frames with their
\* votes, oldest first, m being the number of frames processed since the
\* latest transition (or the start).
C14_SlidingWindow ==
    /\ Len(ring_buffer) <= num_padding_frames
    /\ pc \in {"for", "flush", "yield163", "done"} =>
          LET k == Min(num_padding_frames, SinceTransition)
          IN  /\ Len(ring_buffer) = k
              /\ \A i \in 1..k :
                    /\ ring_buffer[i][1] = frames[idx - k + i]
                    /\ ring_buffer[i][2] = (vad[idx - k + i] = "voiced")

\* A full window that has evicted its oldest votes and holds mixed votes.
C14_Witness ==
    /\ pc = "for"
    /\ num_padding_frames = 3
    /\ Len(ring_buffer) = 3
    /\ SinceTransition = 5
    /\ ring_buffer[1][2] # ring_buffer[3][2]

\* C15 - Strict threshold at W = 10: a NOT_TRIGGERED frame step triggers only
\* when the pushed window holds 10 voiced votes, not 9; a TRIGGERED frame step
\* detriggers only when it holds 10 unvoiced votes, not 9.
C15_StrictAtTen ==
    [][(num_padding_frames = 10 /\ pc = "if") =>
          /\ ~triggered => (triggered' <=> CountOf(PushedVotes, TRUE) = 10)
          /\ (~triggered /\ CountOf(PushedVotes, TRUE) = 9) => ~triggered'
          /\ triggered => (~triggered' <=> CountOf(PushedVotes, FALSE) = 10)
          /\ (triggered /\ CountOf(PushedVotes, FALSE) = 9) => triggered']_vars

\* The collector is still TRIGGERED with 9 unvoiced votes in a full window,
\* having triggered earlier on 10 voiced ones.
C15_Witness ==
    /\ num_padding_frames = 10
    /\ pc = "for"
    /\ triggered
    /\ Len(ring_buffer) = 10
    /\ CountOf(RingVotes, FALSE) = 9

\* Number of classifier calls due so far: one per frame taken, the frame just
\* taken excepted until line 128 has run.
CallsDue == IF pc = "is_speech" THEN idx - 1 ELSE idx

\* C16 - The classifier is called exactly once per input frame, in arrival
\* order, in both states, and before the frame reaches the ring buffer or the
\* segment list.
C16_ClassifiedOnce ==
    /\ Len(calls) = CallsDue
    /\ \A k \in 1..Len(calls) : calls[k] = frames[k].bytes
    /\ \A i \in 1..Len(ring_buffer) : RingIndex(i) <= Len(calls)
    /\ \A i \in 1..Len(voiced_frames) : voiced_frames[i].bytes[1] <= Len(calls)

\* A frame has been classified in the TRIGGERED state, after others were in
\* NOT_TRIGGERED, and is about to be appended.
C16_Witness ==
    /\ pc = "if"
    /\ triggered
    /\ Len(calls) = idx
    /\ idx >= 3
    /\ \A i \in 1..Len(voiced_frames) : voiced_frames[i] # frame

\* The last frame of the segment emitted last.
LastEmitted == out[Len(out)][Len(out[Len(out)])]

C17_Inv ==
    (pc = "yield155") =>
       /\ out # <<>>
       /\ LastEmitted = idx
       /\ Len(calls) = idx

C17_Step ==
    /\ Len(out') > Len(out) =>
          /\ pc' \in {"yield155", "yield163"}
          /\ idx' = idx
          /\ calls' = calls
    /\ pc \in {"yield155", "yield163"} =>
          /\ idx' = idx
          /\ calls' = calls
          /\ out' = out
          /\ pc' \in {"for", "done"}
    /\ idx' # idx =>
          /\ pc = "for"
          /\ idx' = idx + 1
          /\ out' = out
          /\ out # <<>> => LastEmitted <= idx

\* C17 - Pull-based ordering: a segment is handed over by suspending the
\* generator; the segment completed by the detrigger on frame k is handed over
\* when k is the last frame taken and classified, and nothing is taken or
\* classified while the generator is suspended: the next frame is taken only
\* after the caller has pulled again.
C17_PullOrdering == []C17_Inv /\ [][C17_Step]_vars

\* After a detrigger on frame k and the caller's next pull, frame k+1 has been
\* taken.
C17_Witness ==
    /\ pc = "is_speech"
    /\ Len(out) = 1
    /\ sites = <<155>>
    /\ idx = LastEmitted + 1

C18_Inv ==
    num_padding_frames >= 1 =>
       /\ pc \in {"for", "is_speech", "if", "flush"} =>
             (voiced_frames # <<>> <=> triggered)
       /\ pc = "yield163" => triggered

C18_Step ==
    (num_padding_frames >= 1 /\ pc = "flush") =>
       ((Len(out') = Len(out) + 1) <=> triggered)

\* C18 - State/accumulator invariant: for W >= 1, between frames the segment
\* list is non-empty exactly in the TRIGGERED state, and the end-of-input
\* flush emits a segment exactly when the input ended in TRIGGERED.
C18_ListIffTriggered == []C18_Inv /\ [][C18_Step]_vars

\* After a detrigger the collector is NOT_TRIGGERED with an empty list and has
\* reached the end of input, where nothing is flushed.
C18_Witness ==
    /\ pc = "done"
    /\ ~triggered
    /\ sites = <<155>>
    /\ voiced_frames = <<>>
    /\ idx > LastEmitted

\* C19 - Disjoint, ordered segments: inside a segment the frames increase
\* strictly, the last frame of a segment precedes the first frame of the
\* next, the open segment starts after everything emitted, and what the ring
\* buffer holds between frames in NOT_TRIGGERED came after the last emitted
\* segment.
C19_DisjointOrdered ==
    /\ \A s \in 1..Len(out) :
          \A p \in 1..Len(out[s]), q \in 1..Len(out[s]) :
             p < q => out[s][p] < out[s][q]
    /\ \A s \in 1..Len(out), t \in 1..Len(out) :
          s < t => (out[s] # <<>> /\ out[t] # <<>> /\ out[s][Len(out[s])] < out[t][1])
    /\ (pc \in {"for", "is_speech", "if", "flush"} /\ out # <<>>) =>
          /\ out[Len(out)] # <<>>
          /\ \A i \in 1..Len(voiced_frames) : voiced_frames[i].bytes[1] > LastEmitted
          /\ \A i \in 1..Len(ring_buffer) : RingIndex(i) > LastEmitted

\* Two segments from an 11-frame window: the second triggered on a window
\* that was refilled after the first detrigger.
C19_Witness ==
    /\ pc = "done"
    /\ num_padding_frames = 11
    /\ Len(out) = 2
    /\ out[2][1] = out[1][Len(out[1])] + 1

\* The smallest count that exceeds 0.9 * W.
MinCount(w) == (9 * w) \div 10 + 1

\* C20 - Minimum segment length: for W >= 1 and T the smallest count above
\* 0.9 * W, a segment emitted at a detrigger has at least 2 * T frames, one
\* emitted by the end-of-input flush at least T, and none is empty.
C20_MinimumLength ==
    num_padding_frames >= 1 =>
       \A s \in 1..Len(out) :
          /\ Len(out[s]) >= 1
          /\ sites[s] = 155 => Len(out[s]) >= 2 * MinCount(num_padding_frames)
          /\ sites[s] = 163 => Len(out[s]) >= MinCount(num_padding_frames)

\* With W = 11 a segment of exactly 2 * T = 20 frames was emitted at a
\* detrigger and one of exactly T = 10 frames by the flush.
C20_Witness ==
    /\ pc = "done"
    /\ num_padding_frames = 11
    /\ sites = <<155, 163>>
    /\ Len(out[1]) = 20
    /\ Len(out[2]) = 10

====
